---- MODULE Spec2Model ----
(***************************************************************************)
(* State-machine model of dags/healthcare.py: the positional join          *)
(* (merge_csvs), the transactional loader (load_csv_to_pg) and the DAG     *)
(* dependencies that order the six tasks of healthcare_pipeline.           *)
(***************************************************************************)
EXTENDS Integers, Sequences, FiniteSets, TLC

\* ------------------------------------------------------------------------
\* Bounds of the model
\* ------------------------------------------------------------------------
MaxRows == 2      \* longest CSV handed to one load call
MaxTable == 3     \* most rows the destination table holds
MaxIn == 2        \* longest input of merge_csvs

\* ------------------------------------------------------------------------
\* Helpers
\* ------------------------------------------------------------------------
Min(a, b) == IF a <= b THEN a ELSE b

SeqUpTo(S, n) == UNION {[1..m -> S] : m \in 0..n}

\* ------------------------------------------------------------------------
\* CSV contents
\* ------------------------------------------------------------------------
\* healthcare.py:109-118, the keys of one merged row, in insertion order
MergedColumns ==
    <<"patient_name", "patient_email", "blood_type", "doctor_name",
      "department", "appointment_date", "status", "consultation_fee">>

\* rows as csv.DictReader yields them: column name -> text
CsvRows ==
    { [patient_name |-> "Ann Lee", patient_email |-> e, blood_type |-> "A+",
       doctor_name |-> "Dr. Roe", department |-> "Cardiology",
       appointment_date |-> "2025-10-02", status |-> "scheduled",
       consultation_fee |-> "50.0"] : e \in {"", "ann@x.org"} }

\* the files load_csv_to_pg can be handed: an empty file (fieldnames is
\* None, written <<>>), a header without rows, or a header with rows
CsvFiles ==
    { [fieldnames |-> <<>>, rows |-> <<>>] } \cup
    { [fieldnames |-> MergedColumns, rows |-> r] : r \in SeqUpTo(CsvRows, MaxRows) }

\* healthcare.py:138, `r.get(col, "") or None`: an empty text becomes NULL
\* (written <<>>), any other text v stays (written <<v>>)
ToParam(v) == IF v = "" THEN <<>> ELSE <<v>>

\* healthcare.py:137-139, the list of parameter tuples
ToTuples(file) ==
    [i \in 1..Len(file.rows) |->
        [j \in 1..Len(file.fieldnames) |-> ToParam(file.rows[i][file.fieldnames[j]])]]

\* ------------------------------------------------------------------------
\* State
\* ------------------------------------------------------------------------
\* load_csv_to_pg
VARIABLES
    db,        \* committed contents of the destination database
    tx,        \* contents as seen inside the open transaction
    csvfile,   \* the file read by the current call
    append,    \* the call's append flag
    lpc,       \* position inside load_csv_to_pg
    k,         \* rows executemany has inserted so far
    conn,      \* "none", "open", "closed", "close_failed"
    pending,   \* outcome decided before the finally clause runs
    outcome,   \* what the call gave its caller
    pre,       \* committed contents when the call started
    failedAt,  \* first statement of the call that raised
    ncommit,   \* rows this call committed
    prev       \* the previous call, when it returned its row count

loadVars == <<db, tx, csvfile, append, lpc, k, conn, pending, outcome,
              pre, failedAt, ncommit, prev>>

\* merge_csvs
VARIABLES
    patients,      \* list read from patients_path
    appointments,  \* list read from appointments_path
    merged,        \* the local list merged
    mergedFile,    \* merged_data.csv
    mpc,           \* position inside merge_csvs
    mresult,       \* "none", "ok" or the exception that left the call
    mpreFile       \* merged_data.csv when the call started

mergeVars == <<patients, appointments, merged, mergedFile, mpc, mresult, mpreFile>>

\* task instances of one DAG run
VARIABLES
    tstate,   \* state of each task instance
    tries,    \* attempts each task instance has started
    step,     \* next operation of each running task
    files     \* each CSV of OUTPUT_DIR: "absent", "partial" or "written"

pipeVars == <<tstate, tries, step, files>>

restOfLoad == <<mergeVars, pipeVars>>
restOfMerge == <<loadVars, pipeVars>>
restOfPipe == <<loadVars, mergeVars>>

vars == <<loadVars, mergeVars, pipeVars>>

\* ------------------------------------------------------------------------
\* load_csv_to_pg
\* ------------------------------------------------------------------------
NoOutcome == [kind |-> "none", n |-> 0, err |-> "none"]
Return(n) == [kind |-> "return", n |-> n, err |-> "none"]
Raise(e) == [kind |-> "raise", n |-> 0, err |-> e]

EmptyDb == [schema |-> FALSE, table |-> FALSE, columns |-> <<>>, rows |-> <<>>]

NoPrev == [ok |-> FALSE, append |-> TRUE, rows |-> <<>>, pre |-> <<>>]

\* the exceptions a statement can raise: psycopg2.Error (DatabaseError in
\* the module) or anything else (e.g. a task timeout raised in the call)
Errors == {"DatabaseError", "OtherError"}

InitLoad ==
    /\ db = EmptyDb
    /\ tx = EmptyDb
    /\ csvfile = [fieldnames |-> <<>>, rows |-> <<>>]
    /\ append = TRUE
    /\ lpc = "idle"
    /\ k = 0
    /\ conn = "none"
    /\ pending = NoOutcome
    /\ outcome = NoOutcome
    /\ pre = EmptyDb
    /\ failedAt = "none"
    /\ ncommit = 0
    /\ prev = NoPrev

NeverEarlyReturn(rows) == FALSE

\* healthcare.py:140, `if not rows`
EarlyReturn(rows) == rows = <<>>

DeleteNever(app) == FALSE

DeleteAlways(app) == TRUE

\* healthcare.py:148, a DELETE statement exists only when append is false
DeleteStmt(app) == ~app

\* healthcare.py:127-141: the call starts, reads the file and returns 0 at
\* once when it has no rows
LoadCall(file, app) ==
    /\ lpc \in {"idle", "done"}
    /\ Len(IF DeleteStmt(app) THEN <<>> ELSE db.rows) + Len(file.rows) <= MaxTable
    /\ csvfile' = file
    /\ append' = app
    /\ pre' = db
    /\ prev' = IF lpc = "done" /\ outcome = Return(Len(csvfile.rows))
                 THEN [ok |-> TRUE, append |-> append,
                       rows |-> ToTuples(csvfile), pre |-> pre.rows]
                 ELSE NoPrev
    /\ k' = 0
    /\ conn' = "none"
    /\ pending' = NoOutcome
    /\ failedAt' = "none"
    /\ ncommit' = 0
    /\ IF EarlyReturn(ToTuples(file))
         THEN /\ lpc' = "done"
              /\ outcome' = Return(0)
         ELSE /\ lpc' = "get_conn"
              /\ outcome' = NoOutcome
    /\ UNCHANGED <<db, tx>>
    /\ UNCHANGED restOfLoad

\* healthcare.py:153-154, the connection is acquired before the try
GetConn ==
    /\ lpc = "get_conn"
    /\ conn' = "open"
    /\ tx' = db
    /\ lpc' = "create_schema"
    /\ UNCHANGED <<db, csvfile, append, k, pending, outcome, pre, failedAt,
                   ncommit, prev>>
    /\ UNCHANGED restOfLoad

\* healthcare.py:154, get_conn raises: nothing catches it
GetConnFails ==
    /\ lpc = "get_conn"
    /\ failedAt' = "get_conn"
    /\ outcome' = Raise("ConnectError")
    /\ lpc' = "done"
    /\ UNCHANGED <<db, tx, csvfile, append, k, conn, pending, pre, ncommit, prev>>
    /\ UNCHANGED restOfLoad

\* healthcare.py:157, CREATE SCHEMA IF NOT EXISTS
CreateSchema ==
    /\ lpc = "create_schema"
    /\ tx' = [tx EXCEPT !.schema = TRUE]
    /\ lpc' = "create_table"
    /\ UNCHANGED <<db, csvfile, append, k, conn, pending, outcome, pre,
                   failedAt, ncommit, prev>>
    /\ UNCHANGED restOfLoad

\* healthcare.py:158, CREATE TABLE IF NOT EXISTS: an existing table keeps
\* its columns and rows
CreateTable ==
    /\ lpc = "create_table"
    /\ tx' = IF tx.table THEN tx
             ELSE [tx EXCEPT !.table = TRUE, !.columns = csvfile.fieldnames,
                             !.rows = <<>>]
    /\ lpc' = IF DeleteStmt(append) THEN "delete" ELSE "insert"
    /\ UNCHANGED <<db, csvfile, append, k, conn, pending, outcome, pre,
                   failedAt, ncommit, prev>>
    /\ UNCHANGED restOfLoad

\* healthcare.py:159-160, DELETE FROM the table
DeleteRows ==
    /\ lpc = "delete"
    /\ tx' = [tx EXCEPT !.rows = <<>>]
    /\ lpc' = "insert"
    /\ UNCHANGED <<db, csvfile, append, k, conn, pending, outcome, pre,
                   failedAt, ncommit, prev>>
    /\ UNCHANGED restOfLoad

\* healthcare.py:161, executemany inserts the rows one statement at a time
InsertRow ==
    /\ lpc = "insert"
    /\ k < Len(csvfile.rows)
    /\ tx' = [tx EXCEPT !.rows = Append(@, ToTuples(csvfile)[k + 1])]
    /\ k' = k + 1
    /\ UNCHANGED <<db, csvfile, append, lpc, conn, pending, outcome, pre,
                   failedAt, ncommit, prev>>
    /\ UNCHANGED restOfLoad

\* healthcare.py:161-162, executemany has gone through every row
InsertDone ==
    /\ lpc = "insert"
    /\ k = Len(csvfile.rows)
    /\ lpc' = "commit"
    /\ UNCHANGED <<db, tx, csvfile, append, k, conn, pending, outcome, pre,
                   failedAt, ncommit, prev>>
    /\ UNCHANGED restOfLoad

\* healthcare.py:162, conn.commit() publishes the transaction
Commit ==
    /\ lpc = "commit"
    /\ db' = tx
    /\ ncommit' = Len(csvfile.rows)
    /\ lpc' = "cursor_exit"
    /\ UNCHANGED <<tx, csvfile, append, k, conn, pending, outcome, pre,
                   failedAt, prev>>
    /\ UNCHANGED restOfLoad

\* healthcare.py:156 and 163, the with block closes the cursor and the call
\* decides to return len(rows)
CursorExit ==
    /\ lpc = "cursor_exit"
    /\ pending' = Return(Len(ToTuples(csvfile)))
    /\ lpc' = "close"
    /\ UNCHANGED <<db, tx, csvfile, append, k, conn, outcome, pre, failedAt,
                   ncommit, prev>>
    /\ UNCHANGED restOfLoad

\* where a statement that raises inside the try is named after
FailPoint(pc) ==
    CASE pc \in {"create_schema", "create_table"} -> "provision"
      [] pc = "delete" -> "clear"
      [] OTHER -> pc

\* healthcare.py:155-166, a statement inside the try raises e: a
\* DatabaseError reaches the except clause, anything else goes straight to
\* the finally clause and leaves the call as e
StmtFails(e) ==
    /\ lpc \in {"create_schema", "create_table", "delete", "insert", "commit",
                "cursor_exit"}
    /\ lpc = "insert" => k < Len(csvfile.rows)
    /\ failedAt' = FailPoint(lpc)
    /\ IF e = "DatabaseError"
         THEN /\ lpc' = "rollback"
              /\ pending' = pending
         ELSE /\ lpc' = "close"
              /\ pending' = Raise(e)
    /\ UNCHANGED <<db, tx, csvfile, append, k, conn, outcome, pre, ncommit, prev>>
    /\ UNCHANGED restOfLoad

RollbackCommits ==
    /\ lpc = "rollback"
    /\ db' = tx
    /\ pending' = Return(0)
    /\ lpc' = "close"
    /\ UNCHANGED <<tx, csvfile, append, k, conn, outcome, pre, failedAt,
                   ncommit, prev>>
    /\ UNCHANGED restOfLoad

\* healthcare.py:165-166, conn.rollback() then return 0
Rollback ==
    /\ lpc = "rollback"
    /\ tx' = db
    /\ pending' = Return(0)
    /\ lpc' = "close"
    /\ UNCHANGED <<db, csvfile, append, k, conn, outcome, pre, failedAt,
                   ncommit, prev>>
    /\ UNCHANGED restOfLoad

\* healthcare.py:165, conn.rollback() itself raises inside the except clause
RollbackFails ==
    /\ lpc = "rollback"
    /\ pending' = Raise("RollbackError")
    /\ lpc' = "close"
    /\ UNCHANGED <<db, tx, csvfile, append, k, conn, outcome, pre, failedAt,
                   ncommit, prev>>
    /\ UNCHANGED restOfLoad

\* healthcare.py:167-168, finally: conn.close(); the server discards what
\* the connection never committed, and the pending outcome leaves the call
Close ==
    /\ lpc = "close"
    /\ conn' = "closed"
    /\ tx' = db
    /\ outcome' = pending
    /\ lpc' = "done"
    /\ UNCHANGED <<db, csvfile, append, k, pending, pre, failedAt, ncommit, prev>>
    /\ UNCHANGED restOfLoad

\* healthcare.py:168, conn.close() raises: the exception of a finally clause
\* replaces the pending return value or exception
CloseFails ==
    /\ lpc = "close"
    /\ conn' = "close_failed"
    /\ tx' = db
    /\ outcome' = Raise("CloseError")
    /\ lpc' = "done"
    /\ UNCHANGED <<db, csvfile, append, k, pending, pre, failedAt, ncommit, prev>>
    /\ UNCHANGED restOfLoad

\* ------------------------------------------------------------------------
\* merge_csvs
\* ------------------------------------------------------------------------
\* rows of patients.csv as csv.DictReader yields them (healthcare.py:35-49)
PatientRows ==
    { [patient_id |-> "p" \o f, first_name |-> f, last_name |-> "Lee",
       date_of_birth |-> "1980-01-01", gender |-> "Other", blood_type |-> b,
       email |-> f \o "@x.org", phone |-> "555", address |-> "1 Main St"] :
      f \in {"Ann"}, b \in {"A+", "O-"} }

\* rows of appointments.csv (healthcare.py:72-85)
AppointmentRows ==
    { [appointment_id |-> "a" \o d, doctor_name |-> "Dr. Roe", department |-> d,
       appointment_date |-> "2025-10-02", appointment_time |-> "09:30",
       duration_minutes |-> "30", status |-> "scheduled",
       consultation_fee |-> "50.0"] :
      d \in {"Cardiology", "Neurology"} }

NoFile == [exists |-> FALSE, header |-> <<>>, rows |-> <<>>]
EmptyFile == [exists |-> TRUE, header |-> <<>>, rows |-> <<>>]

InitMerge ==
    /\ patients = <<>>
    /\ appointments = <<>>
    /\ merged = <<>>
    /\ mergedFile = NoFile
    /\ mpc = "idle"
    /\ mresult = "none"
    /\ mpreFile = NoFile

\* healthcare.py:109-118, the projection of one pair of rows
MergedRow(p, a) ==
    [patient_name |-> p.first_name \o " " \o p.last_name,
     patient_email |-> p.email,
     blood_type |-> p.blood_type,
     doctor_name |-> a.doctor_name,
     department |-> a.department,
     appointment_date |-> a.appointment_date,
     status |-> a.status,
     consultation_fee |-> a.consultation_fee]

MergeDropLast(ps, as) ==
    [i \in 1..(Min(Len(ps), Len(as)) - 1) |-> MergedRow(ps[i], as[i])]

\* healthcare.py:105-119, the loop over range(min(len, len))
Merge(ps, as) ==
    [i \in 1..Min(Len(ps), Len(as)) |-> MergedRow(ps[i], as[i])]

\* healthcare.py:99-119: both inputs are read and the list merged is built
MergeCall(ps, as) ==
    /\ mpc \in {"idle", "done"}
    /\ patients' = ps
    /\ appointments' = as
    /\ merged' = Merge(ps, as)
    /\ mpc' = "open"
    /\ mresult' = "none"
    /\ mpreFile' = mergedFile
    /\ UNCHANGED mergedFile
    /\ UNCHANGED restOfMerge

\* healthcare.py:120, open(merged_path, "w") creates or truncates the file
MergeOpen ==
    /\ mpc = "open"
    /\ mergedFile' = EmptyFile
    /\ mpc' = "write"
    /\ UNCHANGED <<patients, appointments, merged, mresult, mpreFile>>
    /\ UNCHANGED restOfMerge

\* healthcare.py:121-124, header and rows are written, the path returned
MergeWrite ==
    /\ mpc = "write"
    /\ merged /= <<>>
    /\ mergedFile' = [exists |-> TRUE, header |-> MergedColumns, rows |-> merged]
    /\ mresult' = "ok"
    /\ mpc' = "done"
    /\ UNCHANGED <<patients, appointments, merged, mpreFile>>
    /\ UNCHANGED restOfMerge

\* healthcare.py:121, merged[0] on an empty list raises IndexError; the with
\* block closes the file it has just truncated
MergeIndexError ==
    /\ mpc = "write"
    /\ merged = <<>>
    /\ mresult' = "IndexError"
    /\ mpc' = "done"
    /\ UNCHANGED <<patients, appointments, merged, mergedFile, mpreFile>>
    /\ UNCHANGED restOfMerge

\* ------------------------------------------------------------------------
\* The DAG: task instances of one run under the scheduler
\* ------------------------------------------------------------------------
Tasks == {"fetch_patients", "fetch_appointments", "merge_csvs",
          "load_csv_to_pg", "analyze_healthcare_data", "cleanup_folder"}

CsvNames == {"patients.csv", "appointments.csv", "merged_data.csv"}

\* healthcare.py:21, default_args retries
Retries == 1

UpstreamCleanupEarly(t) ==
    CASE t = "fetch_patients" -> {}
      [] t = "fetch_appointments" -> {"fetch_patients"}
      [] t = "merge_csvs" -> {"fetch_patients", "fetch_appointments"}
      [] t = "load_csv_to_pg" -> {"merge_csvs"}
      [] t = "analyze_healthcare_data" -> {"load_csv_to_pg"}
      [] t = "cleanup_folder" -> {"load_csv_to_pg"}

\* healthcare.py:171-175 and 219, the direct upstream tasks of each task:
\* the arguments of merge_csvs and load_csv_to_pg, the chain inside
\* etl_group, and etl_group >> analysis_group >> cleanup_folder()
Upstream(t) ==
    CASE t = "fetch_patients" -> {}
      [] t = "fetch_appointments" -> {"fetch_patients"}
      [] t = "merge_csvs" -> {"fetch_patients", "fetch_appointments"}
      [] t = "load_csv_to_pg" -> {"merge_csvs"}
      [] t = "analyze_healthcare_data" -> {"load_csv_to_pg"}
      [] t = "cleanup_folder" -> {"analyze_healthcare_data"}

Op(kind, file) == [kind |-> kind, file |-> file]

\* the file operations of each task body, in program order
Ops(t) ==
    CASE t = "fetch_patients" ->
           <<Op("open", "patients.csv"), Op("write", "patients.csv")>>
      [] t = "fetch_appointments" ->
           <<Op("open", "appointments.csv"), Op("write", "appointments.csv")>>
      [] t = "merge_csvs" ->
           <<Op("read", "patients.csv"), Op("read", "appointments.csv"),
             Op("open", "merged_data.csv"), Op("write", "merged_data.csv")>>
      [] t = "load_csv_to_pg" -> <<Op("read", "merged_data.csv")>>
      [] t = "analyze_healthcare_data" -> <<Op("read", "merged_data.csv")>>
      [] t = "cleanup_folder" ->
           <<Op("remove", "appointments.csv"), Op("remove", "merged_data.csv"),
             Op("remove", "patients.csv")>>

InitPipe ==
    /\ tstate = [t \in Tasks |-> "none"]
    /\ tries = [t \in Tasks |-> 0]
    /\ step = [t \in Tasks |-> 1]
    /\ files = [f \in CsvNames |-> "absent"]

\* the scheduler starts a task, for the first time or as a retry, once all
\* its upstream tasks have succeeded (trigger rule all_success)
TaskStart(t) ==
    /\ tstate[t] \in {"none", "up_for_retry"}
    /\ \A u \in Upstream(t) : tstate[u] = "success"
    /\ tstate' = [tstate EXCEPT ![t] = "running"]
    /\ tries' = [tries EXCEPT ![t] = @ + 1]
    /\ step' = [step EXCEPT ![t] = 1]
    /\ UNCHANGED files
    /\ UNCHANGED restOfPipe

\* a task whose upstream failed is never run
TaskUpstreamFailed(t) ==
    /\ tstate[t] = "none"
    /\ \E u \in Upstream(t) : tstate[u] \in {"failed", "upstream_failed"}
    /\ tstate' = [tstate EXCEPT ![t] = "upstream_failed"]
    /\ UNCHANGED <<tries, step, files>>
    /\ UNCHANGED restOfPipe

\* the effect of one file operation
FileAfter(op, st) ==
    CASE op.kind = "read" -> st
      [] op.kind = "open" -> "partial"
      [] op.kind = "write" -> "written"
      [] op.kind = "remove" -> "absent"

\* the running task performs its next file operation; reading a file that
\* does not exist raises instead (TaskFail)
TaskStep(t) ==
    /\ tstate[t] = "running"
    /\ step[t] <= Len(Ops(t))
    /\ LET op == Ops(t)[step[t]] IN
         /\ op.kind = "read" => files[op.file] /= "absent"
         /\ files' = [files EXCEPT ![op.file] = FileAfter(op, @)]
    /\ step' = [step EXCEPT ![t] = @ + 1]
    /\ UNCHANGED <<tstate, tries>>
    /\ UNCHANGED restOfPipe

\* the task body returns
TaskSucceed(t) ==
    /\ tstate[t] = "running"
    /\ step[t] > Len(Ops(t))
    /\ tstate' = [tstate EXCEPT ![t] = "success"]
    /\ UNCHANGED <<tries, step, files>>
    /\ UNCHANGED restOfPipe

\* the task body raises: retried while attempts remain, failed otherwise
TaskFail(t) ==
    /\ tstate[t] = "running"
    /\ tstate' = [tstate EXCEPT ![t] =
                     IF tries[t] <= Retries THEN "up_for_retry" ELSE "failed"]
    /\ UNCHANGED <<tries, step, files>>
    /\ UNCHANGED restOfPipe

\* ------------------------------------------------------------------------
\* Specifications
\* ------------------------------------------------------------------------
Init == InitLoad /\ InitMerge /\ InitPipe

NextLoad ==
    \/ \E file \in CsvFiles, app \in BOOLEAN : LoadCall(file, app)
    \/ GetConn
    \/ GetConnFails
    \/ CreateSchema
    \/ CreateTable
    \/ DeleteRows
    \/ InsertRow
    \/ InsertDone
    \/ Commit
    \/ CursorExit
    \/ \E e \in Errors : StmtFails(e)
    \/ Rollback
    \/ RollbackFails
    \/ Close
    \/ CloseFails

NextMerge ==
    \/ \E ps \in SeqUpTo(PatientRows, MaxIn), as \in SeqUpTo(AppointmentRows, MaxIn) :
          MergeCall(ps, as)
    \/ MergeOpen
    \/ MergeWrite
    \/ MergeIndexError

NextPipe ==
    \/ \E t \in Tasks : TaskStart(t)
    \/ \E t \in Tasks : TaskUpstreamFailed(t)
    \/ \E t \in Tasks : TaskStep(t)
    \/ \E t \in Tasks : TaskSucceed(t)
    \/ \E t \in Tasks : TaskFail(t)

SpecLoad == Init /\ [][NextLoad]_vars

SpecMerge == Init /\ [][NextMerge]_vars

SpecPipe == Init /\ [][NextPipe]_vars

\* ------------------------------------------------------------------------
\* Properties of load_csv_to_pg (SpecLoad)
\* ------------------------------------------------------------------------
IsPrefix(s, t) == Len(s) <= Len(t) /\ SubSeq(t, 1, Len(s)) = s

\* C1: a load call that fails during provisioning, during the Replace-mode
\* clear or after k of n rows were inserted leaves the committed database
\* exactly as it was before the call; at every moment the committed table
\* holds either its pre-call rows or the complete result of the call, never
\* part of the dataset and never the cleared table without the new rows.
AtomicLoad ==
    /\ failedAt \in {"provision", "clear", "insert"} => db = pre
    /\ \/ db.rows = pre.rows
       \/ db.rows = (IF append THEN pre.rows ELSE <<>>) \o ToTuples(csvfile)

\* a Replace call over a non-empty table has ended after failing with some
\* but not all rows inserted
AtomicLoadWitness ==
    /\ lpc = "done"
    /\ failedAt = "insert"
    /\ ~append
    /\ k >= 1
    /\ k < Len(csvfile.rows)
    /\ pre.rows /= <<>>
    /\ db = pre

\* C2: every failure inside a load call (acquiring the connection,
\* creating the schema or table, clearing, inserting, committing) ends in
\* a rollback and the return value 0, never in an exception leaving the call.
FailureReturnsZero ==
    (lpc = "done" /\ failedAt \in {"get_conn", "provision", "clear", "insert", "commit"})
        => (outcome = Return(0) /\ db = pre)

\* C3: two successive successful Replace loads of the same non-empty
\* dataset D leave the table holding exactly the rows of D, |D| of them.
ReplaceIdempotent ==
    (/\ lpc = "done"
     /\ ~append
     /\ csvfile.rows /= <<>>
     /\ outcome = Return(Len(csvfile.rows))
     /\ prev.ok
     /\ ~prev.append
     /\ prev.rows = ToTuples(csvfile))
        => (db.rows = ToTuples(csvfile) /\ Len(db.rows) = Len(csvfile.rows))

\* the second of two equal successful Replace loads has ended, and the table
\* held other rows before the first
ReplaceIdempotentWitness ==
    /\ lpc = "done"
    /\ ~append
    /\ csvfile.rows /= <<>>
    /\ outcome = Return(Len(csvfile.rows))
    /\ prev.ok
    /\ ~prev.append
    /\ prev.rows = ToTuples(csvfile)
    /\ prev.pre /= <<>>
    /\ prev.pre /= prev.rows

\* C4: after two successive successful Append loads the table holds the rows
\* it held before the first, then the rows of the first, then the rows of
\* the second; during an Append call the rows present before the call stay
\* in place; a committed table never disappears.
AppendAdditive ==
    [][ /\ (/\ lpc' = "done"
            /\ append'
            /\ outcome' = Return(Len(csvfile'.rows))
            /\ prev'.ok
            /\ prev'.append)
               => db'.rows = prev'.pre \o prev'.rows \o ToTuples(csvfile')
        /\ append' => IsPrefix(pre'.rows, db'.rows)
        /\ db.table => db'.table ]_vars

\* the second of two successful non-empty Append loads into a non-empty
\* table has ended
AppendAdditiveWitness ==
    /\ lpc = "done"
    /\ append
    /\ csvfile.rows /= <<>>
    /\ outcome = Return(Len(csvfile.rows))
    /\ prev.ok
    /\ prev.append
    /\ prev.rows /= <<>>
    /\ prev.pre /= <<>>
    /\ Len(db.rows) = Len(prev.pre) + Len(prev.rows) + Len(csvfile.rows)

\* C5: whenever a load call returns a value, the value is the number of
\* rows the call committed.
ReturnsCommittedCount ==
    (lpc = "done" /\ outcome.kind = "return") => outcome.n = ncommit

\* C6 as stated: a zero-row load returns 0 and inserts nothing; with an
\* empty column set it touches nothing, with a non-empty column set the
\* schema and the table exist when it returns.
ZeroRowsProvision ==
    (lpc = "done" /\ csvfile.rows = <<>>)
        => /\ outcome = Return(0)
           /\ db.rows = pre.rows
           /\ csvfile.fieldnames = <<>> => (db = pre /\ conn = "none")
           /\ csvfile.fieldnames /= <<>> => (db.schema /\ db.table)

\* C6 as amended: a zero-row load returns 0 without acquiring a connection
\* and leaves the database exactly as it was, whether or not the file has a
\* header.
ZeroRowsNoOp ==
    (lpc = "done" /\ csvfile.rows = <<>>)
        => /\ outcome = Return(0)
           /\ conn = "none"
           /\ db = pre
           /\ tx = pre

\* a header-only file was loaded while the table did not exist
ZeroRowsNoOpWitness ==
    /\ lpc = "done"
    /\ csvfile.rows = <<>>
    /\ csvfile.fieldnames /= <<>>
    /\ outcome = Return(0)
    /\ ~db.schema
    /\ ~db.table

\* C7: a call that acquired a connection has closed it when it ends, and
\* what leaves the call is the outcome decided before the close.
ReleaseKeepsOutcome ==
    (lpc = "done" /\ conn /= "none")
        => (conn \in {"closed", "close_failed"} /\ outcome = pending)

\* ------------------------------------------------------------------------
\* Properties of merge_csvs (SpecMerge)
\* ------------------------------------------------------------------------
\* C8: with at least one row on each side merge_csvs writes exactly
\* min(|a|, |b|) rows, and every field of row i is the projected source
\* field of a[i] or b[i]; rows past the shorter input appear nowhere.
MergePairsByIndex ==
    (mpc = "done" /\ patients /= <<>> /\ appointments /= <<>>)
        => /\ mresult = "ok"
           /\ mergedFile.exists
           /\ mergedFile.header = MergedColumns
           /\ Len(mergedFile.rows) = Min(Len(patients), Len(appointments))
           /\ \A i \in 1..Len(mergedFile.rows) :
                LET r == mergedFile.rows[i]
                    p == patients[i]
                    a == appointments[i]
                IN /\ r.patient_name = p.first_name \o " " \o p.last_name
                   /\ r.patient_email = p.email
                   /\ r.blood_type = p.blood_type
                   /\ r.doctor_name = a.doctor_name
                   /\ r.department = a.department
                   /\ r.appointment_date = a.appointment_date
                   /\ r.status = a.status
                   /\ r.consultation_fee = a.consultation_fee

\* a merge of inputs of different lengths and different rows has ended
MergePairsByIndexWitness ==
    /\ mpc = "done"
    /\ mresult = "ok"
    /\ Len(patients) = 1
    /\ Len(appointments) = 2
    /\ appointments[1] /= appointments[2]
    /\ Len(mergedFile.rows) = 1

\* C9: with an empty input merge_csvs fails with EmptyInputError and the
\* merged file is as it was before the call.
EmptyInputRejected ==
    (mpc = "done" /\ (patients = <<>> \/ appointments = <<>>))
        => (mresult = "EmptyInputError" /\ mergedFile = mpreFile)

\* ------------------------------------------------------------------------
\* Properties of the DAG (SpecPipe)
\* ------------------------------------------------------------------------
StageOrder ==
    <<"fetch_patients", "fetch_appointments", "merge_csvs", "load_csv_to_pg",
      "analyze_healthcare_data", "cleanup_folder">>

Started(t) == tstate[t] \in {"running", "up_for_retry", "success", "failed"}

\* C10: a stage has started only if every earlier stage of the order
\* Generator(A), Generator(B), Joiner, Loader, Summarizer, Cleanup has
\* succeeded, and a stage about to read a CSV finds it completely written.
StagesInOrder ==
    /\ \A i \in 1..Len(StageOrder), j \in 1..Len(StageOrder) :
          (i < j /\ Started(StageOrder[j])) => tstate[StageOrder[i]] = "success"
    /\ \A t \in Tasks :
          (tstate[t] = "running" /\ step[t] <= Len(Ops(t))
              /\ Ops(t)[step[t]].kind = "read")
             => files[Ops(t)[step[t]].file] = "written"

\* the run has finished with a retried Joiner and the CSVs removed
StagesInOrderWitness ==
    /\ tstate["cleanup_folder"] = "success"
    /\ tries["merge_csvs"] = 2
    /\ \A f \in CsvNames : files[f] = "absent"

====
